---- MODULE Spec2Model ----
(***************************************************************************)
(* GoogleSheetsDataReplicator (google_sheets_data_replicator.py): one run  *)
(* of the replicator as a state machine.  A step is one request.execute()  *)
(* together with the code that runs up to the next request.execute().      *)
(* The remote service answers each execution with a response, an HttpError *)
(* of status 429, or an HttpError of another status: the three outcomes    *)
(* the source distinguishes.                                               *)
(***************************************************************************)
EXTENDS Integers, Sequences, FiniteSets, TLC

VARIABLES
    configuration,            \* rows of Configuration!A1:Z50 in the remote document
    pc,                       \* the method of run() that is executing
    op,                       \* inside process_tasks: "read" or "write" is executing
    fatal,                    \* the exception that ended the run, or "none"
    source_sheet_index,
    destination_sheet_index,
    task_id_index,
    enable_index,
    tasks,
    ti,                       \* process_tasks: 1-based position of `task` in tasks
    pi,                       \* process_tasks: 1-based position of the pair in the task
    response,                 \* process_tasks: the read response of the current pair
    errors,
    errorOrigin,              \* history: for each entry of errors, the row and call it is about
    calls,                    \* history: the requests handed to execute_request, in order
    depth                     \* execute_request: nested calls below the first one

vars == <<configuration, pc, op, fatal, source_sheet_index, destination_sheet_index,
          task_id_index, enable_index, tasks, ti, pi, response, errors, errorOrigin,
          calls, depth>>

----------------------------------------------------------------------------
(* Bounds of the model. *)

MaxTasks == 2           \* task rows below the header
MaxRowLen == 9          \* cells in a task row: up to two range pairs
RecursionLimit == 3     \* nested execute_request frames the interpreter allows
                        \* (CPython: sys.getrecursionlimit(), 1000 by default)

(* None as a column index: enumerate() never yields it. *)
None == -1

configuration_sheet_id == "configSheet"
configuration_range == "Configuration!A1:Z50"

----------------------------------------------------------------------------
(* Inputs: configuration sheets and remote answers. *)

Headers ==
    { <<"ID", "Source Sheet Id", "Destination Sheet Id", "Enable", "Note">>,
      <<"Enable", "ID", "Source Sheet Id", "Destination Sheet Id", "Note">>,
      \* labels twice and a label missing
      <<"ID", "Enable", "Source Sheet Id", "Enable", "ID", "Source Sheet Id">>,
      <<"ID", "Source Sheet Id", "Destination Sheet Id">> }

EnableValues == {"TRUE", "FALSE", "true"}

\* The cell of column k (0-based) of a row laid out under header h.
Cell(h, k, en, id) ==
    IF k < Len(h) /\ h[k + 1] = "Enable" THEN en
    ELSE IF k < Len(h) /\ h[k + 1] = "ID" THEN id
    ELSE IF k < Len(h) /\ h[k + 1] = "Source Sheet Id" THEN "srcSheet" \o id
    ELSE IF k < Len(h) /\ h[k + 1] = "Destination Sheet Id" THEN "dstSheet" \o id
    ELSE IF k >= 5 THEN "R" \o ToString(k) \o "!A1:B2"
    ELSE ""

Row(h, n, en, id) == [k \in 1..n |-> Cell(h, k - 1, en, id)]

\* A sheet below its header: for each row its length and its Enable value.
\* The API drops trailing empty cells, so a row has any length from 0 on.
Layouts ==
    UNION { [1..n -> (0..MaxRowLen) \X EnableValues] : n \in 0..MaxTasks }

Sheet(h, layout) ==
    <<h>> \o [r \in DOMAIN layout |->
                Row(h, layout[r][1], layout[r][2], "T" \o ToString(r))]

\* The remote documents: what a read of a range of a document returns in
\* response['values'], one row of one cell that differs from range to range.
Values(spreadsheetId, range) == <<<<"value of " \o spreadsheetId \o "/" \o range>>>>

\* str(e) of an HttpError whose status is not 429.
HttpErrorText == "<HttpError 403>"

----------------------------------------------------------------------------
(* fetch_config_data: the header scan (lines 61-65). *)

NoIndexes == [source |-> None, destination |-> None, id |-> None, enable |-> None]

\* Variant of ScanColumn: an index that is set is kept (first match wins).
ScanColumnFirst(idx, column, value) ==
    LET a == IF value = "Source Sheet Id" /\ idx.source = None
             THEN [idx EXCEPT !.source = column] ELSE idx
        b == IF value = "Destination Sheet Id" /\ a.destination = None
             THEN [a EXCEPT !.destination = column] ELSE a
        c == IF value = "ID" /\ b.id = None THEN [b EXCEPT !.id = column] ELSE b
    IN  IF value = "Enable" /\ c.enable = None THEN [c EXCEPT !.enable = column] ELSE c

\* One iteration of the loop over enumerate(header): column and value.
ScanColumn(idx, column, value) ==
    LET a == IF value = "Source Sheet Id" THEN [idx EXCEPT !.source = column] ELSE idx
        b == IF value = "Destination Sheet Id" THEN [a EXCEPT !.destination = column] ELSE a
        c == IF value = "ID" THEN [b EXCEPT !.id = column] ELSE b
    IN  IF value = "Enable" THEN [c EXCEPT !.enable = column] ELSE c

RECURSIVE ScanHeader(_, _, _)
ScanHeader(header, column, idx) ==
    IF column >= Len(header) THEN idx
    ELSE ScanHeader(header, column + 1, ScanColumn(idx, column, header[column + 1]))

----------------------------------------------------------------------------
(* process_tasks (lines 69-83) and its helpers. *)

\* task[index]: the cell, or the exception the subscript raises.
SubscriptError(task, index) ==
    IF index = None THEN "TypeError"
    ELSE IF index >= Len(task) THEN "IndexError"
    ELSE "none"

Subscript(task, index) == task[index + 1]

\* Variant of IsEnabled: the comparison ignores case.
IsEnabledAnyCase(task) == Subscript(task, enable_index) \in {"TRUE", "true"}

\* line 71: the row is skipped unless this holds.
IsEnabled(task) == Subscript(task, enable_index) = "TRUE"

\* Variant of IsMisconfigured: a row shorter than the 5 leading fields is reported.
IsMisconfiguredOrShort(task) == Len(task) < 5 \/ (Len(task) - 5) % 2 # 0

\* line 72
IsMisconfigured(task) == (Len(task) - 5) % 2 # 0

\* lines 86-92, for a row that passed line 72: range(5, len(task), 2).
RECURSIVE PairsFrom(_, _)
PairsFrom(task, i) ==
    IF i >= Len(task) THEN <<>>
    ELSE <<[source_range |-> task[i + 1], destination_range |-> task[i + 2]]>>
         \o PairsFrom(task, i + 2)

\* Variant of get_source_destination_range_pairs: the pairs right to left.
PairsReversed(task) ==
    LET pairs == PairsFrom(task, 5) IN
    [p \in 1..Len(pairs) |-> pairs[Len(pairs) + 1 - p]]

\* Variant of get_source_destination_range_pairs: range(7, len(task), 2).
PairsFromSeven(task) == PairsFrom(task, 7)

get_source_destination_range_pairs(task) == PairsFrom(task, 5)

\* Variant of MisconfiguredMessage: the string is no f-string.
MisconfiguredMessageUnformatted(task) ==
    "Task {task[self.task_id_index]} is not configured properly. Check source and destination pair."

MisconfiguredMessage(task) ==
    "Task " \o Subscript(task, task_id_index)
            \o " is not configured properly. Check source and destination pair."

ReadErrorMessage(task) == "Failed to fetch data for task " \o Subscript(task, task_id_index)

WriteErrorMessage(task) == "Failed to write data for task " \o Subscript(task, task_id_index)

\* Variant of LoggedMessage: the exception is left out of the message.
LoggedMessageNoDetail(error_message) == error_message

\* line 98
LoggedMessage(error_message) == error_message \o ": " \o HttpErrorText

\* Variant of add_error: the list is assigned, not appended to.
add_error_assigning(errs, message) == << <<message>> >>

\* lines 112-113
add_error(errs, message) == Append(errs, <<message>>)

NoValues == <<>>

\* line 58
ConfigRequest ==
    [op |-> "get", spreadsheetId |-> configuration_sheet_id, range |-> configuration_range,
     body |-> [range |-> "", values |-> NoValues], task |-> 0, pair |-> 0,
     status |-> "pending", result |-> NoValues]

\* line 77
ReadRequest(task, pair, t, p) ==
    [op |-> "get", spreadsheetId |-> Subscript(task, source_sheet_index),
     range |-> pair.source_range,
     body |-> [range |-> "", values |-> NoValues], task |-> t, pair |-> p,
     status |-> "pending", result |-> NoValues]

\* line 81: the read response with its range overwritten.
WriteBody(resp, pair) == [resp EXCEPT !.range = pair.destination_range]

\* Variant of WriteRequest: the write goes to the source document.
WriteRequestToSource(task, pair, resp, t, p) ==
    [op |-> "update", spreadsheetId |-> Subscript(task, source_sheet_index),
     range |-> pair.destination_range,
     body |-> WriteBody(resp, pair), task |-> t, pair |-> p,
     status |-> "pending", result |-> NoValues]

\* line 82
WriteRequest(task, pair, resp, t, p) ==
    [op |-> "update", spreadsheetId |-> Subscript(task, destination_sheet_index),
     range |-> pair.destination_range,
     body |-> WriteBody(resp, pair), task |-> t, pair |-> p,
     status |-> "pending", result |-> NoValues]

\* lines 117-125
ErrorRange(errs) == "Errors!A1:A" \o ToString(Len(errs))

ErrorRequest(errs) ==
    [op |-> "update", spreadsheetId |-> configuration_sheet_id, range |-> ErrorRange(errs),
     body |-> [range |-> ErrorRange(errs), values |-> errs], task |-> 0, pair |-> 0,
     status |-> "pending", result |-> NoValues]

\* Variant of HasErrors: >= for >.
HasErrorsAlways(errs) == Len(errs) >= 0

\* line 116
HasErrors(errs) == Len(errs) > 0

\* handle_errors (lines 115-126) up to its request.execute().
HandleErrorsFrom(t, errs, origin) ==
    IF HasErrors(errs)
    THEN [pc |-> "handle_errors", op |-> "none", fatal |-> "none", ti |-> t, pi |-> 0,
          errors |-> errs, origin |-> origin, call |-> <<ErrorRequest(errs)>>]
    ELSE [pc |-> "done", op |-> "none", fatal |-> "none", ti |-> t, pi |-> 0,
          errors |-> errs, origin |-> origin, call |-> <<>>]

Raise(exception, t, p, errs, origin) ==
    [pc |-> "process_tasks", op |-> "none", fatal |-> exception, ti |-> t, pi |-> p,
     errors |-> errs, origin |-> origin, call |-> <<>>]

\* The pair loop resumes after pair p of row t (line 79's continue, or the
\* end of the loop body).
NextPair(t, p) == <<t, p + 1>>

\* process_tasks from row t, pair p (p = 0: the top of the loop body, line 71)
\* up to the next request.execute(), the end of the loop, or an exception.
RECURSIVE ProcessFrom(_, _, _, _)
ProcessFrom(t, p, errs, origin) ==
    IF t > Len(tasks) THEN HandleErrorsFrom(t, errs, origin)
    ELSE
    LET task == tasks[t] IN
    IF p = 0 THEN
        IF SubscriptError(task, enable_index) # "none"
        THEN Raise(SubscriptError(task, enable_index), t, p, errs, origin)
        ELSE IF ~IsEnabled(task) THEN ProcessFrom(t + 1, 0, errs, origin)
        ELSE IF IsMisconfigured(task) THEN
            IF SubscriptError(task, task_id_index) # "none"
            THEN Raise(SubscriptError(task, task_id_index), t, p, errs, origin)
            ELSE ProcessFrom(t + 1, 0,
                             add_error(errs, MisconfiguredMessage(task)),
                             Append(origin, [task |-> t, pair |-> 0, kind |-> "shape"]))
        ELSE ProcessFrom(t, 1, errs, origin)
    ELSE
    LET pairs == get_source_destination_range_pairs(task) IN
    IF p > Len(pairs) THEN ProcessFrom(t + 1, 0, errs, origin)
    ELSE IF SubscriptError(task, source_sheet_index) # "none"
    THEN Raise(SubscriptError(task, source_sheet_index), t, p, errs, origin)
    ELSE IF SubscriptError(task, task_id_index) # "none"
    THEN Raise(SubscriptError(task, task_id_index), t, p, errs, origin)
    ELSE [pc |-> "process_tasks", op |-> "read", fatal |-> "none", ti |-> t, pi |-> p,
          errors |-> errs, origin |-> origin,
          call |-> <<ReadRequest(task, pairs[p], t, p)>>]

\* The request that is executing: the last one handed to execute_request.
Executing == calls[Len(calls)]

Finish(status, result) ==
    [calls EXCEPT ![Len(calls)] = [@ EXCEPT !.status = status, !.result = result]]

\* Variant of Running: the request of handle_errors never gets an answer.
RunningUntilFlush == fatal = "none" /\ pc \in {"fetch_config_data", "process_tasks"}

Running == fatal = "none" /\ pc \in {"fetch_config_data", "process_tasks", "handle_errors"}

\* The state process_tasks reaches from position n of ProcessFrom.
Resume(n, done) ==
    /\ pc' = n.pc
    /\ op' = n.op
    /\ fatal' = n.fatal
    /\ ti' = n.ti
    /\ pi' = n.pi
    /\ errors' = n.errors
    /\ errorOrigin' = n.origin
    /\ calls' = done \o n.call
    /\ depth' = 0

----------------------------------------------------------------------------
(* The run. *)

\* The object as __init__ leaves it, before a sheet from `sheets`.
InitOf(sheets) ==
    /\ configuration \in sheets
    /\ pc = "initialize"
    /\ op = "none"
    /\ fatal = "none"
    /\ source_sheet_index = None
    /\ destination_sheet_index = None
    /\ task_id_index = None
    /\ enable_index = None
    /\ tasks = <<>>
    /\ ti = 0
    /\ pi = 0
    /\ response = [range |-> "", values |-> NoValues]
    /\ errors = <<>>
    /\ errorOrigin = <<>>
    /\ calls = <<>>
    /\ depth = 0

Init ==
    \* <<>> is the sheet without any value: the response then has no 'values'
    \/ InitOf({<<>>})
    \/ \E h \in Headers, layout \in Layouts : InitOf({Sheet(h, layout)})


\* run, lines 28-29 and fetch_config_data line 58-59 up to request.execute().
Initialize ==
    /\ pc = "initialize"
    /\ pc' = "fetch_config_data"
    /\ calls' = <<ConfigRequest>>
    /\ UNCHANGED <<configuration, op, fatal, source_sheet_index, destination_sheet_index,
                   task_id_index, enable_index, tasks, ti, pi, response, errors,
                   errorOrigin, depth>>

\* execute_request, lines 104-108: status 429, sleep, call itself again.
Retry ==
    /\ Running
    /\ depth + 1 < RecursionLimit
    /\ depth' = depth + 1
    /\ UNCHANGED <<configuration, pc, op, fatal, source_sheet_index,
                   destination_sheet_index, task_id_index, enable_index, tasks, ti, pi,
                   response, errors, errorOrigin, calls>>

\* execute_request, line 108, when the interpreter refuses one more frame:
\* RecursionError is no HttpError, so no handler on the way up catches it.
RecursionOverflow ==
    /\ Running
    /\ depth + 1 >= RecursionLimit
    /\ fatal' = "RecursionError"
    /\ calls' = Finish("RecursionError", NoValues)
    /\ UNCHANGED <<configuration, pc, op, source_sheet_index, destination_sheet_index,
                   task_id_index, enable_index, tasks, ti, pi, response, errors,
                   errorOrigin, depth>>

\* Variant of FetchConfigNoValues: a response without 'values' is an empty sheet.
FetchConfigNoValuesIgnored ==
    /\ Running /\ pc = "fetch_config_data"
    /\ configuration = <<>>
    /\ pc' = "done"
    /\ calls' = Finish("ok", NoValues)
    /\ depth' = 0
    /\ UNCHANGED <<configuration, op, fatal, source_sheet_index, destination_sheet_index,
                   task_id_index, enable_index, tasks, ti, pi, response, errors,
                   errorOrigin>>

\* fetch_config_data, line 60: the response has no 'values'.
FetchConfigNoValues ==
    /\ Running /\ pc = "fetch_config_data"
    /\ configuration = <<>>
    /\ fatal' = "Exception"
    /\ calls' = Finish("ok", NoValues)
    /\ depth' = 0
    /\ UNCHANGED <<configuration, pc, op, source_sheet_index, destination_sheet_index,
                   task_id_index, enable_index, tasks, ti, pi, response, errors,
                   errorOrigin>>

\* fetch_config_data, lines 59-67, then process_tasks up to its first request.
FetchConfigOk ==
    /\ Running /\ pc = "fetch_config_data"
    /\ configuration # <<>>
    /\ LET idx == ScanHeader(configuration[1], 0, NoIndexes) IN
        /\ source_sheet_index' = idx.source
        /\ destination_sheet_index' = idx.destination
        /\ task_id_index' = idx.id
        /\ enable_index' = idx.enable
    /\ tasks' = Tail(configuration)
    \* errors is still the empty list of __init__ (line 24)
    /\ Resume(ProcessFrom(1, 0, <<>>, <<>>)', Finish("ok", configuration))
    /\ UNCHANGED <<configuration, response>>

\* execute_request, line 110, under fetch_config_data: the HttpError ends the run.
FetchConfigHttpError ==
    /\ Running /\ pc = "fetch_config_data"
    /\ fatal' = "HttpError"
    /\ calls' = Finish("HttpError", NoValues)
    /\ depth' = 0
    /\ UNCHANGED <<configuration, pc, op, source_sheet_index, destination_sheet_index,
                   task_id_index, enable_index, tasks, ti, pi, response, errors,
                   errorOrigin>>

\* lines 78-83: the read returned; the write request is built and executed.
ReadOk ==
    /\ Running /\ pc = "process_tasks" /\ op = "read"
    /\ LET task == tasks[ti]
            pair == get_source_destination_range_pairs(task)[pi]
            v == Values(Executing.spreadsheetId, Executing.range)
            resp == [range |-> Executing.range, values |-> v]
        IN  /\ response' = resp
            /\ IF SubscriptError(task, destination_sheet_index) # "none"
               THEN /\ fatal' = SubscriptError(task, destination_sheet_index)
                    /\ op' = "none"
                    /\ calls' = Finish("ok", v)
               ELSE /\ fatal' = "none"
                    /\ op' = "write"
                    /\ calls' = Append(Finish("ok", v), WriteRequest(task, pair, resp, ti, pi))
    /\ depth' = 0
    /\ UNCHANGED <<configuration, pc, source_sheet_index, destination_sheet_index,
                   task_id_index, enable_index, tasks, ti, pi, errors, errorOrigin>>

\* Variant of ReadHttpError: line 79 leaves the pair loop (break for continue).
ReadHttpErrorBreak ==
    /\ Running /\ pc = "process_tasks" /\ op = "read"
    /\ Resume(ProcessFrom(ti + 1, 0,
                add_error(errors, LoggedMessage(ReadErrorMessage(tasks[ti]))),
                Append(errorOrigin, [task |-> ti, pair |-> pi, kind |-> "read"])),
              Finish("HttpError", NoValues))
    /\ UNCHANGED <<configuration, source_sheet_index, destination_sheet_index,
                   task_id_index, enable_index, tasks, response>>

\* lines 97-99 under line 78, then line 79: the error is logged, the pair skipped.
ReadHttpError ==
    /\ Running /\ pc = "process_tasks" /\ op = "read"
    /\ LET after == NextPair(ti, pi) IN
       Resume(ProcessFrom(after[1], after[2],
                add_error(errors, LoggedMessage(ReadErrorMessage(tasks[ti]))),
                Append(errorOrigin, [task |-> ti, pair |-> pi, kind |-> "read"])),
              Finish("HttpError", NoValues))
    /\ UNCHANGED <<configuration, source_sheet_index, destination_sheet_index,
                   task_id_index, enable_index, tasks, response>>

\* line 83: the write returned.
WriteOk ==
    /\ Running /\ pc = "process_tasks" /\ op = "write"
    /\ LET after == NextPair(ti, pi) IN
       Resume(ProcessFrom(after[1], after[2], errors, errorOrigin), Finish("ok", NoValues))
    /\ UNCHANGED <<configuration, source_sheet_index, destination_sheet_index,
                   task_id_index, enable_index, tasks, response>>

\* Variant of WriteHttpError: the except clause passes without logging.
WriteHttpErrorSilent ==
    /\ Running /\ pc = "process_tasks" /\ op = "write"
    /\ Resume(ProcessFrom(ti, pi + 1, errors, errorOrigin), Finish("HttpError", NoValues))
    /\ UNCHANGED <<configuration, source_sheet_index, destination_sheet_index,
                   task_id_index, enable_index, tasks, response>>

\* lines 97-99 under line 83: the error is logged.
WriteHttpError ==
    /\ Running /\ pc = "process_tasks" /\ op = "write"
    /\ LET after == NextPair(ti, pi) IN
       Resume(ProcessFrom(after[1], after[2],
                add_error(errors, LoggedMessage(WriteErrorMessage(tasks[ti]))),
                Append(errorOrigin, [task |-> ti, pair |-> pi, kind |-> "write"])),
              Finish("HttpError", NoValues))
    /\ UNCHANGED <<configuration, source_sheet_index, destination_sheet_index,
                   task_id_index, enable_index, tasks, response>>

\* handle_errors, line 126: the write of the errors returned.
FlushOk ==
    /\ Running /\ pc = "handle_errors"
    /\ pc' = "done"
    /\ calls' = Finish("ok", NoValues)
    /\ depth' = 0
    /\ UNCHANGED <<configuration, op, fatal, source_sheet_index, destination_sheet_index,
                   task_id_index, enable_index, tasks, ti, pi, response, errors,
                   errorOrigin>>

\* Variant of FlushHttpError: handle_errors uses execute_request_or_log_error.
FlushHttpErrorLogged ==
    /\ Running /\ pc = "handle_errors"
    /\ pc' = "done"
    /\ errors' = add_error(errors, LoggedMessage("Failed to write errors"))
    /\ errorOrigin' = Append(errorOrigin, [task |-> 0, pair |-> 0, kind |-> "write"])
    /\ calls' = Finish("HttpError", NoValues)
    /\ depth' = 0
    /\ UNCHANGED <<configuration, op, fatal, source_sheet_index, destination_sheet_index,
                   task_id_index, enable_index, tasks, ti, pi, response>>

\* execute_request, line 110, under handle_errors: the HttpError ends the run.
FlushHttpError ==
    /\ Running /\ pc = "handle_errors"
    /\ fatal' = "HttpError"
    /\ calls' = Finish("HttpError", NoValues)
    /\ depth' = 0
    /\ UNCHANGED <<configuration, pc, op, source_sheet_index, destination_sheet_index,
                   task_id_index, enable_index, tasks, ti, pi, response, errors,
                   errorOrigin>>

Next ==
    \/ Initialize
    \/ Retry
    \/ RecursionOverflow
    \/ FetchConfigNoValues
    \/ FetchConfigOk
    \/ FetchConfigHttpError
    \/ ReadOk
    \/ ReadHttpError
    \/ WriteOk
    \/ WriteHttpError
    \/ FlushOk
    \/ FlushHttpError

Spec == Init /\ [][Next]_vars

----------------------------------------------------------------------------
(* Vocabulary of the properties. *)

TaskRows == 1..Len(tasks)

\* process_tasks has left row t behind: the loop went on to a later row or ended.
Passed(t) == pc \in {"process_tasks", "handle_errors", "done"} /\ ti > t

\* The row has an Enable cell and it reads exactly TRUE.
EnabledRow(t) ==
    /\ enable_index # None
    /\ enable_index < Len(tasks[t])
    /\ tasks[t][enable_index + 1] = "TRUE"

\* The row has an Enable cell and it reads something else.
DisabledRow(t) ==
    /\ enable_index # None
    /\ enable_index < Len(tasks[t])
    /\ tasks[t][enable_index + 1] # "TRUE"

OddTail(t) == (Len(tasks[t]) - 5) % 2 = 1

\* The header names all four columns.
AllColumnsFound ==
    /\ source_sheet_index # None
    /\ destination_sheet_index # None
    /\ task_id_index # None
    /\ enable_index # None

ReadsOf(t) == { k \in DOMAIN calls : calls[k].task = t /\ calls[k].op = "get" }

WritesOf(t) == { k \in DOMAIN calls : calls[k].task = t /\ calls[k].op = "update" }

RecordsOf(t) == { k \in DOMAIN errors : errorOrigin[k].task = t }

\* The writes of the error list.
Flushes == { k \in DOMAIN calls : calls[k].task = 0 /\ calls[k].op = "update" }

----------------------------------------------------------------------------
(* C1: whatever the configuration and whatever the remote reads and         *)
(* writes answer, process_tasks never ends with an exception: it goes on    *)
(* to the next pair or row and the run reaches handle_errors.  Stated here  *)
(* for the configurations whose header names all four columns.              *)
C1_ProcessTasksNeverFatal ==
    AllColumnsFound => ~(pc = "process_tasks" /\ fatal # "none")

(* C2, as claimed: every row whose (length - 5) is odd gets, once           *)
(* process_tasks is past it, exactly one Error Record naming its ID, and no *)
(* read or write is issued for it.                                          *)
C2_OddTailAlwaysRecorded ==
    \A t \in TaskRows :
        OddTail(t) /\ Passed(t) =>
            /\ Cardinality(RecordsOf(t)) = 1
            /\ ReadsOf(t) = {} /\ WritesOf(t) = {}

(* C2, amended: every row whose Enable cell is exactly TRUE and whose       *)
(* (length - 5) is odd never gets a read or a write and never more than one *)
(* Error Record; once process_tasks is past it, it has exactly one, the     *)
(* "not configured properly" message with the row's ID cell in it.          *)
C2_EnabledOddTailRecorded ==
    \A t \in TaskRows :
        EnabledRow(t) /\ OddTail(t) =>
            /\ ReadsOf(t) = {} /\ WritesOf(t) = {}
            /\ Cardinality(RecordsOf(t)) <= 1
            /\ Passed(t) =>
                \E k \in DOMAIN errors :
                    /\ RecordsOf(t) = {k}
                    /\ errors[k] = << "Task " \o tasks[t][task_id_index + 1]
                          \o " is not configured properly. Check source and destination pair." >>

C2_Witness ==
    \E t \in TaskRows :
        /\ EnabledRow(t) /\ OddTail(t) /\ Passed(t)
        /\ Len(tasks[t]) > 5
        /\ \E u \in TaskRows : u < t /\ ReadsOf(u) # {}

\* The Range Pairs of a row of n cells.
NumPairs(n) == IF n >= 5 THEN (n - 5) \div 2 ELSE 0

(* C3, as claimed: for every enabled row with an even (length - 5) that     *)
(* process_tasks is past, the reads issued for it and the writes issued for *)
(* it both number (length - 5) / 2.                                         *)
C3_CallPairsAreHalfTheTail ==
    \A t \in TaskRows :
        EnabledRow(t) /\ ~OddTail(t) /\ Passed(t) =>
            /\ Cardinality(ReadsOf(t)) = (Len(tasks[t]) - 5) \div 2
            /\ Cardinality(WritesOf(t)) = (Len(tasks[t]) - 5) \div 2

(* C3, amended: for every enabled row with an even (length - 5) that        *)
(* process_tasks is past, the reads issued for it number its Range Pairs,   *)
(* (length - 5) / 2 for a row of 5 cells or more and 0 for a shorter row,   *)
(* and the writes issued for it number those of its reads that succeeded.   *)
C3_ReadsAreThePairs ==
    \A t \in TaskRows :
        EnabledRow(t) /\ ~OddTail(t) /\ Passed(t) =>
            /\ Cardinality(ReadsOf(t)) = NumPairs(Len(tasks[t]))
            /\ Cardinality(WritesOf(t))
                 = Cardinality({ k \in ReadsOf(t) : calls[k].status = "ok" })

C3_Witness ==
    \E t \in TaskRows :
        /\ EnabledRow(t) /\ ~OddTail(t) /\ Passed(t)
        /\ Cardinality(ReadsOf(t)) = 2
        /\ Cardinality(WritesOf(t)) = 1

(* C4: a row whose Enable cell is not exactly "TRUE" gets no read, no write *)
(* and no Error Record, whatever else it holds.                             *)
C4_DisabledRowUntouched ==
    \A t \in TaskRows :
        DisabledRow(t) => ReadsOf(t) = {} /\ WritesOf(t) = {} /\ RecordsOf(t) = {}

C4_Witness ==
    \E t, u \in TaskRows :
        /\ DisabledRow(t) /\ Passed(t) /\ tasks[t][enable_index + 1] = "true"
        /\ Len(tasks[t]) = 8
        /\ DisabledRow(u) /\ Passed(u) /\ tasks[u][enable_index + 1] = "FALSE"
        /\ Len(tasks[u]) = 9

\* The reads the configuration asks for, as <<row, pair>>, in configuration
\* order: every pair of every enabled row with an even (length - 5).
RECURSIVE ExpectedReadsFrom(_)
ExpectedReadsFrom(t) ==
    IF t > Len(tasks) THEN <<>>
    ELSE (IF EnabledRow(t) /\ ~OddTail(t)
          THEN [p \in 1..NumPairs(Len(tasks[t])) |-> <<t, p>>]
          ELSE <<>>) \o ExpectedReadsFrom(t + 1)

ExpectedReads == ExpectedReadsFrom(1)

\* The reads issued so far, as <<row, pair>>, in the order of issue.
RECURSIVE IssuedReadsUpTo(_)
IssuedReadsUpTo(k) ==
    IF k = 0 THEN <<>>
    ELSE IssuedReadsUpTo(k - 1)
         \o (IF calls[k].op = "get" /\ calls[k].task > 0
             THEN << <<calls[k].task, calls[k].pair>> >> ELSE <<>>)

IssuedReads == IssuedReadsUpTo(Len(calls))

IsPrefix(a, b) == Len(a) <= Len(b) /\ \A k \in 1..Len(a) : a[k] = b[k]

\* This step is a read ending in an HttpError whose status is not 429.
ReadFails ==
    /\ pc = "process_tasks" /\ op = "read" /\ fatal = "none"
    /\ calls'[Len(calls)].status = "HttpError"

\* Where the run stands in the loops of process_tasks, or that it has left them.
Position == <<pc = "process_tasks", op, fatal, ti, pi>>

\* Where process_tasks stands after pair p of row t has been read and written.
AfterPair(t, p) ==
    LET n == ProcessFrom(t, p + 1, <<>>, <<>>) IN
    <<n.pc = "process_tasks", n.op, n.fatal, n.ti, n.pi>>

(* C5: a read that fails with an HttpError other than 429 stops no later    *)
(* read.  The reads are issued in configuration order whatever the answers  *)
(* were, and the step in which a read fails leaves the run where a read and *)
(* write of that pair that both succeed leave it: at the read of the next   *)
(* pair of an enabled well-formed row, which it has issued.                 *)
C5_ReadFailureStopsNoLaterRead ==
    [][ /\ calls' # calls => IsPrefix(IssuedReads, ExpectedReads)'
        /\ ReadFails =>
             /\ Position' = AfterPair(ti, pi)
             /\ Len(IssuedReads) < Len(ExpectedReads) /\ Position'[3] = "none" =>
                   /\ IssuedReads' = SubSeq(ExpectedReads, 1, Len(IssuedReads) + 1)
                   /\ calls'[Len(calls')].status = "pending" ]_vars

\* A first pair's read has failed and the second pair's read and a later
\* row's read were issued all the same.
C5_Witness ==
    /\ \E k \in DOMAIN calls :
         /\ calls[k].op = "get" /\ calls[k].task = 1 /\ calls[k].pair = 1
         /\ calls[k].status = "HttpError"
         /\ k + 2 <= Len(calls)
         /\ calls[k + 1].op = "get" /\ calls[k + 1].task = 1 /\ calls[k + 1].pair = 2
         /\ calls[k + 1].status = "HttpError"
         /\ calls[k + 2].op = "get" /\ calls[k + 2].task = 2

(* C6: however many 429 answers precede a success, execute_request hands   *)
(* its caller the success as if no 429 had come: there is no number of 429  *)
(* answers after which the executor gives the request up.                   *)
C6_NoRetryCount ==
    \A k \in DOMAIN calls : calls[k].status # "RecursionError"

(* C7: when process_tasks ends with an empty error list, handle_errors      *)
(* issues no write: the run is done with no request to the Errors sheet.    *)
C7_NoErrorsNoFlush ==
    pc \in {"handle_errors", "done"} /\ errors = <<>> => pc = "done" /\ Flushes = {}

C7_Witness ==
    /\ pc = "done" /\ errors = <<>>
    /\ \E k \in DOMAIN calls : calls[k].op = "update" /\ calls[k].status = "ok"

(* C8: a run that has an Error Record issues exactly one write of the error *)
(* list, after its last task read or write, to Errors!A1:A{N} of the        *)
(* configuration document, N the number of records, the rows being the      *)
(* records in order.  Stated of the runs that have ended.                   *)
C8_OneFlushOfAllRecords ==
    (pc = "done" \/ fatal # "none") /\ errors # <<>> =>
        \E k \in DOMAIN calls :
            /\ Flushes = {k}
            /\ k = Len(calls)
            /\ calls[k].spreadsheetId = configuration_sheet_id
            /\ calls[k].range = "Errors!A1:A" \o ToString(Len(errors))
            /\ calls[k].body.values = errors

\* The writes of range pairs.
PairWrites == { k \in DOMAIN calls : calls[k].op = "update" /\ calls[k].task > 0 }

\* The reads of range pairs.
PairReads == { k \in DOMAIN calls : calls[k].op = "get" /\ calls[k].task > 0 }

(* C9: every read of a pair asks for the pair's source range (cell 5 + 2j   *)
(* of the row) of the row's Source Sheet Id; every write of a pair comes    *)
(* right after the read of the same pair, which succeeded, goes to the      *)
(* pair's destination range (cell 6 + 2j) of the row's Destination Sheet Id *)
(* and carries the values that read returned; no pair is read twice or      *)
(* written twice.                                                           *)
C9_WriteCopiesItsRead ==
    /\ \A k \in PairReads :
         LET c == calls[k] row == tasks[c.task] IN
         /\ c.range = row[2 * c.pair + 4]
         /\ c.spreadsheetId = row[source_sheet_index + 1]
         /\ c.status = "ok" => c.result = Values(c.spreadsheetId, c.range)
         /\ \A j \in PairReads : calls[j].task = c.task /\ calls[j].pair = c.pair => j = k
    /\ \A k \in PairWrites :
         LET c == calls[k] row == tasks[c.task] IN
         /\ k - 1 \in PairReads
         /\ calls[k - 1].task = c.task /\ calls[k - 1].pair = c.pair
         /\ calls[k - 1].status = "ok"
         /\ c.range = row[2 * c.pair + 5]
         /\ c.spreadsheetId = row[destination_sheet_index + 1]
         /\ c.body.values = calls[k - 1].result
         /\ \A j \in PairWrites : calls[j].task = c.task /\ calls[j].pair = c.pair => j = k

\* Two pairs of one row were read and written, with different values.
C9_Witness ==
    \E k, j \in PairWrites :
        /\ calls[k].status = "ok" /\ calls[j].status = "ok"
        /\ calls[k].task = calls[j].task /\ calls[k].pair = 1 /\ calls[j].pair = 2
        /\ calls[k].body.values # calls[j].body.values

(* C10: when the configuration response holds no values, the run ends in    *)
(* fetch_config_data with the exception of line 60: no read or write of a   *)
(* task, no Error Record and no write of the error list.                    *)
C10_NoValuesIsFatal ==
    configuration = <<>> =>
        /\ pc \in {"initialize", "fetch_config_data"}
        /\ errors = <<>>
        /\ PairReads = {} /\ PairWrites = {} /\ Flushes = {}
        /\ (calls # <<>> /\ calls[1].status = "ok") => fatal = "Exception"

C10_Witness ==
    /\ configuration = <<>> /\ fatal = "Exception" /\ pc = "fetch_config_data"
    /\ calls[1].status = "ok"

----------------------------------------------------------------------------
(* The run under its scheduling: one thread, every request.execute() is a   *)
(* blocking call that returns with an answer, so a step that can be taken   *)
(* is taken.                                                                *)
\* The sheets of the first two kinds of row under the usual header.
LiveLayouts ==
    UNION { [1..n -> (0..MaxRowLen) \X {"TRUE", "FALSE"}] : n \in 0..MaxTasks }

LiveInit ==
    \/ InitOf({<<>>})
    \/ \E layout \in LiveLayouts :
          InitOf({Sheet(<<"ID", "Source Sheet Id", "Destination Sheet Id", "Enable", "Note">>,
                        layout)})

LiveSpec == LiveInit /\ [][Next]_vars /\ WF_vars(Next)

\* The run is over: run() returned or an exception left it.
Terminated == pc = "done" \/ fatal # "none"

\* A step in which the service answers 429.
Answer429 == Retry \/ RecursionOverflow

(* C11: a run ends at done or with an exception, or else it is answered 429 *)
(* again and again without end: a run that is answered 429 only finitely    *)
(* often terminates.                                                        *)
C11_EndsUnlessRateLimitedForever ==
    <>Terminated \/ []<><<Answer429>>_vars

C11_Witness ==
    /\ pc = "done"
    /\ \E k \in DOMAIN calls : calls[k].op = "update" /\ calls[k].task > 0
    /\ Flushes # {}

\* The Error Records about pair p of row t.
RecordsOfPair(t, p) ==
    { e \in DOMAIN errors : errorOrigin[e].task = t /\ errorOrigin[e].pair = p }

\* Call k + 1 is the read of pair p of row t.
NextIsReadOf(k, t, p) ==
    /\ k + 1 <= Len(calls)
    /\ calls[k + 1].op = "get" /\ calls[k + 1].task = t /\ calls[k + 1].pair = p

(* C12: a read of a pair that ended in an HttpError other than 429 has      *)
(* exactly one Error Record, "Failed to fetch data for task <ID>: <the      *)
(* error>"; the pair gets no write; and when the row has a further pair,    *)
(* the very next request is the read of that pair.                          *)
C12_FailedReadLoggedPairSkipped ==
    \A k \in PairReads :
        calls[k].status = "HttpError" =>
            LET t == calls[k].task p == calls[k].pair IN
            /\ \E e \in DOMAIN errors :
                 /\ RecordsOfPair(t, p) = {e}
                 /\ errors[e] = << "Failed to fetch data for task "
                                   \o tasks[t][task_id_index + 1] \o ": " \o HttpErrorText >>
            /\ \A j \in PairWrites : ~(calls[j].task = t /\ calls[j].pair = p)
            /\ p < NumPairs(Len(tasks[t])) => NextIsReadOf(k, t, p + 1)

\* The first pair's read failed, the second pair was read and written.
C12_Witness ==
    \E k \in PairReads :
        /\ calls[k].status = "HttpError" /\ calls[k].pair = 1
        /\ NextIsReadOf(k, calls[k].task, 2)
        /\ calls[k + 1].status = "ok"
        /\ k + 2 \in PairWrites /\ calls[k + 2].status = "ok"

(* C13: a write of a pair that ended in an HttpError other than 429 has     *)
(* exactly one Error Record, "Failed to write data for task <ID>: <the      *)
(* error>"; the pair is written once only; and the run goes on: the very    *)
(* next request is the read of the row's next pair when there is one, and   *)
(* otherwise process_tasks has left the row.                                *)
C13_FailedWriteLoggedRunGoesOn ==
    \A k \in PairWrites :
        calls[k].status = "HttpError" =>
            LET t == calls[k].task p == calls[k].pair IN
            /\ \E e \in DOMAIN errors :
                 /\ RecordsOfPair(t, p) = {e}
                 /\ errors[e] = << "Failed to write data for task "
                                   \o tasks[t][task_id_index + 1] \o ": " \o HttpErrorText >>
            /\ \A j \in PairWrites : calls[j].task = t /\ calls[j].pair = p => j = k
            /\ IF p < NumPairs(Len(tasks[t]))
               THEN NextIsReadOf(k, t, p + 1)
               ELSE /\ Passed(t)
                    /\ k < Len(calls) =>
                         \/ calls[k + 1].task = 0 /\ calls[k + 1].op = "update"
                         \/ calls[k + 1].task > t /\ calls[k + 1].op = "get"
                                                  /\ calls[k + 1].pair = 1

\* A row's last write failed and the next row's first pair was read.
C13_Witness ==
    \E k \in PairWrites :
        /\ calls[k].status = "HttpError" /\ calls[k].pair = 2 /\ calls[k].task = 1
        /\ NextIsReadOf(k, 2, 1)
        /\ Len(errors) = 1

\* The requests of the base executor: the configuration fetch and the write
\* of the error list.
BaseCalls == { k \in DOMAIN calls : calls[k].task = 0 }

(* C14: an HttpError other than 429 on the configuration fetch or on the    *)
(* write of the error list ends the run with that HttpError: the request is *)
(* the last of the run and is made once, no Error Record is added for it,   *)
(* and the run never gets to done.                                          *)
C14_BaseExecutorPropagates ==
    \A k \in BaseCalls :
        calls[k].status = "HttpError" =>
            /\ fatal = "HttpError"
            /\ pc = (IF calls[k].op = "get" THEN "fetch_config_data" ELSE "handle_errors")
            /\ k = Len(calls)
            /\ \A j \in BaseCalls : calls[j].op = calls[k].op => j = k
            /\ RecordsOf(0) = {}
            /\ errors = calls[k].body.values

C14_Witness ==
    /\ fatal = "HttpError" /\ pc = "handle_errors"
    /\ Len(errors) = 2
    /\ calls[Len(calls)].status = "HttpError"

(* C15: a step in which a request is answered 429 leaves the request        *)
(* executing: the executor neither returns nor raises, no Error Record is   *)
(* added, no further request is issued and the run stays where it is.       *)
C15_RateLimitedRequestIsKeptTrying ==
    [][Answer429 =>
         /\ fatal' = "none"
         /\ calls' = calls /\ errors' = errors
         /\ pc' = pc /\ op' = op /\ ti' = ti /\ pi' = pi]_vars

\* The rank of a request of a pair in its row: pairs left to right, the read
\* of a pair before its write.
Rank(c) == 2 * c.pair + (IF c.op = "get" THEN 0 ELSE 1)

(* C16: the requests of the pairs are issued in configuration order: those  *)
(* of an earlier row before those of a later row, within a row pair 1, 2,   *)
(* ... which are cells 5-6, 7-8, ... of the row, and the write of a pair    *)
(* after its read and before the read of the next pair; the configuration   *)
(* fetch comes first and the write of the error list last.                  *)
C16_CallsInConfigurationOrder ==
    /\ \A k, j \in PairReads \cup PairWrites :
         k < j =>
            \/ calls[k].task < calls[j].task
            \/ calls[k].task = calls[j].task /\ Rank(calls[k]) < Rank(calls[j])
    /\ \A k \in PairReads : calls[k].range = tasks[calls[k].task][5 + 2 * (calls[k].pair - 1) + 1]
    /\ \A k \in PairWrites : calls[k].range = tasks[calls[k].task][6 + 2 * (calls[k].pair - 1) + 1]
    /\ \A k \in BaseCalls :
         IF calls[k].op = "get" THEN k = 1 ELSE k = Len(calls)
    /\ \A k \in DOMAIN calls : k < Len(calls) => calls[k].status # "pending"

\* Two rows of two pairs each, all read and written.
C16_Witness ==
    /\ Len(tasks) = 2
    /\ Cardinality(PairReads) = 4 /\ Cardinality(PairWrites) = 4
    /\ pc = "done"

\* The column of the last cell of header that reads label, or None.
LastOccurrence(header, label) ==
    LET at == { c \in 0..(Len(header) - 1) : header[c + 1] = label } IN
    IF at = {} THEN None ELSE CHOOSE c \in at : \A d \in at : d <= c

(* C17: once fetch_config_data has returned, each of the four indexes is    *)
(* the column of the last cell of the header row that reads its label       *)
(* (None when no cell does), and tasks is the fetched rows after row 0, in  *)
(* order.                                                                   *)
C17_LastHeaderMatchWins ==
    pc \in {"process_tasks", "handle_errors", "done"} =>
        /\ task_id_index = LastOccurrence(configuration[1], "ID")
        /\ source_sheet_index = LastOccurrence(configuration[1], "Source Sheet Id")
        /\ destination_sheet_index = LastOccurrence(configuration[1], "Destination Sheet Id")
        /\ enable_index = LastOccurrence(configuration[1], "Enable")
        /\ Len(tasks) = Len(configuration) - 1
        /\ \A t \in TaskRows : tasks[t] = configuration[t + 1]

\* The header has Enable in two columns and a row was read under it.
C17_Witness ==
    /\ pc = "process_tasks" /\ op = "read"
    /\ \E c \in 0..(Len(configuration[1]) - 1) :
         configuration[1][c + 1] = "Enable" /\ c < enable_index
    /\ Len(tasks) = 2

\* The place of an Error Record's cause in the run: the row, then the pair
\* (0 for the row's shape), then read before write.
CauseRank(o) == <<o.task, 2 * o.pair + (IF o.kind = "write" THEN 1 ELSE 0)>>

Before(a, b) == a[1] < b[1] \/ (a[1] = b[1] /\ a[2] < b[2])

\* The text an Error Record of origin o carries.
RecordText(o) ==
    LET id == tasks[o.task][task_id_index + 1] IN
    IF o.kind = "shape"
    THEN "Task " \o id \o " is not configured properly. Check source and destination pair."
    ELSE IF o.kind = "read"
    THEN "Failed to fetch data for task " \o id \o ": " \o HttpErrorText
    ELSE "Failed to write data for task " \o id \o ": " \o HttpErrorText

\* The causes of Error Records that have occurred.
MisconfiguredRows == { t \in TaskRows : EnabledRow(t) /\ OddTail(t) }
FailedReads == { k \in PairReads : calls[k].status = "HttpError" }
FailedWrites == { k \in PairWrites : calls[k].status = "HttpError" }

(* C18: every step leaves the error list as it was or appends to it; the    *)
(* records stand in the order in which their causes occurred, each a list   *)
(* of the one message of its cause; and once process_tasks has returned,    *)
(* the list is as long as the enabled rows with an odd tail, the failed     *)
(* reads and the failed writes are many.                                    *)
C18_ErrorsAppendOnlyAndCounted ==
    [][ /\ IsPrefix(errors, errors')
        /\ errors' # errors =>
             /\ Len(errorOrigin') = Len(errors')
             /\ \A e \in DOMAIN errors' : errors'[e] = << (RecordText(errorOrigin[e]))' >>
             /\ \A e, f \in DOMAIN errors' :
                  e < f => Before(CauseRank(errorOrigin'[e]), CauseRank(errorOrigin'[f]))
        /\ pc' \in {"handle_errors", "done"} =>
             Len(errors') = Cardinality(MisconfiguredRows') + Cardinality(FailedReads')
                            + Cardinality(FailedWrites') ]_vars

\* A misconfigured row, a failed read and a failed write, all recorded.
C18_Witness ==
    /\ pc \in {"handle_errors", "done"}
    /\ Len(errors) = 3
    /\ MisconfiguredRows # {} /\ FailedReads # {} /\ FailedWrites # {}

(* C19: an enabled row of fewer than 5 cells that process_tasks has passed  *)
(* has an Error Record exactly when it has 2 or 4 cells; with 1 or 3 cells  *)
(* it has none; either way no read or write is issued for it.               *)
C19_ShortRowsByParity ==
    \A t \in TaskRows :
        EnabledRow(t) /\ Len(tasks[t]) < 5 /\ Passed(t) =>
            /\ ReadsOf(t) = {} /\ WritesOf(t) = {}
            /\ Len(tasks[t]) \in {2, 4} => Cardinality(RecordsOf(t)) = 1
            /\ Len(tasks[t]) \in {1, 3} => RecordsOf(t) = {}

\* Enabled rows of 3 cells and of 2 cells were passed.
C19_Witness ==
    \E t, u \in TaskRows :
        /\ EnabledRow(t) /\ Len(tasks[t]) = 3 /\ Passed(t)
        /\ EnabledRow(u) /\ Len(tasks[u]) = 2 /\ Passed(u)
        /\ Len(errors) = 1

====
